---- MODULE Spec2Model ----
(***************************************************************************)
(* Leaderboard engine of christmas-elf-officer (src/aoc/leaderboard.rs):   *)
(* a Leaderboard is a Vec<Solution>; the ranking, statistics and diff      *)
(* functions are pure functions of one or two leaderboards.  The state is  *)
(* the leaderboard(s) being built and the value returned by the last call. *)
(* A panic (unwrap on None, unreachable!()) is recorded as a panicked      *)
(* call.  Timestamps are integers (seconds), a Duration is their           *)
(* difference.                                                             *)
(***************************************************************************)
EXTENDS Integers, Sequences, FiniteSets, TLC

VARIABLES leaderboard, current_leaderboard, out

vars == <<leaderboard, current_leaderboard, out>>

(***************************************************************************)
(* Option<T>: None is the empty sequence, Some(x) the one-element one.     *)
(***************************************************************************)
None == <<>>

Some(x) == <<x>>

\* enum ProblemPart { FIRST, SECOND }, with its derived order FIRST < SECOND
ProblemPart == {"FIRST", "SECOND"}

PartOrd(part) == IF part = "FIRST" THEN 0 ELSE 1

(***************************************************************************)
(* Bounds of the inputs.                                                   *)
(***************************************************************************)
\* longest leaderboard of the ranking runs
RankMaxLen == 3

\* longest leaderboard of the statistics runs
StatMaxLen == 2

\* longest leaderboard of the statistics runs over several days
StatDaysMaxLen == 3

\* longest reference and comparison leaderboards of the diff runs
DiffMaxLen == 2

\* member names, in String order (bytewise)
Names == <<"alice", "bob">>

NameOrd(name) == CHOOSE i \in 1..Len(Names) : Names[i] = name

Identifier(name, numeric, global_score) ==
    [name |-> name, numeric |-> numeric, global_score |-> global_score]

Solution(timestamp, year, day, part, id, rank) ==
    [timestamp |-> timestamp, year |-> year, day |-> day, part |-> part,
     id |-> id, rank |-> rank]

(***************************************************************************)
(* Derived orders.  #[derive(Ord)] compares the fields in declaration      *)
(* order; Option orders None before Some.                                  *)
(***************************************************************************)
RECURSIVE LexLt(_, _)
LexLt(a, b) ==
    IF a = <<>> \/ b = <<>> THEN FALSE
    ELSE \/ Head(a) < Head(b)
         \/ Head(a) = Head(b) /\ LexLt(Tail(a), Tail(b))

OptionKey(o) == IF o = None THEN <<0, 0>> ELSE <<1, o[1]>>

IdentifierKey(id) == <<NameOrd(id.name), id.numeric, id.global_score>>

SolutionKey(s) ==
    <<s.timestamp, s.year, s.day, PartOrd(s.part)>> \o IdentifierKey(s.id)
        \o OptionKey(s.rank)

(***************************************************************************)
(* Sorting.  A stable sort of <<key, item>> pairs by key (slice::sort_by_key*)
(* and itertools' sorted_by_key are stable; sorted_unstable may reorder    *)
(* only items that compare equal, which under a total derived order are    *)
(* identical).                                                             *)
(***************************************************************************)
RECURSIVE InsertPair(_, _)
InsertPair(sorted, p) ==
    IF sorted = <<>> THEN <<p>>
    ELSE IF LexLt(p[1], Head(sorted)[1]) THEN <<p>> \o sorted
    ELSE <<Head(sorted)>> \o InsertPair(Tail(sorted), p)

RECURSIVE SortPairs(_)
SortPairs(pairs) ==
    IF pairs = <<>> THEN <<>>
    ELSE InsertPair(SortPairs(SubSeq(pairs, 1, Len(pairs) - 1)), pairs[Len(pairs)])

\* keys[i] is the key of seq[i]
sorted_by_key(seq, keys) ==
    LET pairs == [i \in 1..Len(seq) |-> <<keys[i], seq[i]>>]
        s == SortPairs(pairs)
    IN  [i \in 1..Len(seq) |-> s[i][2]]

sorted_unstable(seq) == sorted_by_key(seq, [i \in 1..Len(seq) |-> SolutionKey(seq[i])])

Range(seq) == {seq[i] : i \in 1..Len(seq)}

\* Iterator::last
Last(seq) == IF seq = <<>> THEN None ELSE Some(seq[Len(seq)])

(***************************************************************************)
(* A HashMap iterates in an arbitrary order: every call that iterates one  *)
(* is given an ordering of its keys.                                       *)
(***************************************************************************)
Orderings(S) ==
    {o \in [1..Cardinality(S) -> S] : \A i, j \in 1..Cardinality(S) : o[i] = o[j] => i = j}

(***************************************************************************)
(* Leaderboard: the grouping views.                                        *)
(***************************************************************************)
\* Identifier derives PartialEq, Eq and Hash over name, numeric and global_score
solutions_per_member(lb) ==
    [id \in {s.id : s \in Range(lb)} |-> SelectSeq(lb, LAMBDA s : s.id = id)]

solutions_per_challenge(lb) ==
    [c \in {<<s.day, s.part>> : s \in Range(lb)} |->
        SelectSeq(lb, LAMBDA s : <<s.day, s.part>> = c)]

members_ids(lb, order) == [i \in 1..Len(order) |-> order[i].numeric]

standings_per_challenge(lb) ==
    LET groups == solutions_per_challenge(lb)
    IN  [c \in DOMAIN groups |->
            LET sorted == sorted_unstable(groups[c])
            IN  [i \in 1..Len(sorted) |-> sorted[i].id]]

\* [usize; 25]: one slot per day of the calendar
DAYS == 25

RECURSIVE SumFn(_, _)
SumFn(f, S) ==
    IF S = {} THEN 0
    ELSE LET x == CHOOSE x \in S : TRUE IN f[x] + SumFn(f, S \ {x})

\* let star_score = n_members - rank;
star_score(n_members, rank) == n_members - rank

n_members(lb) == Cardinality(DOMAIN solutions_per_member(lb))

\* the (challenge, zero-based position) places of the standings
StarPlaces(lb) ==
    LET standings == standings_per_challenge(lb)
    IN  {<<c, i>> \in (DOMAIN standings) \X (0..Len(lb)) : i < Len(standings[c])}

\* usize subtraction: n_members - rank below zero panics (overflow checks on)
scores_overflow(lb) == \E p \in StarPlaces(lb) : star_score(n_members(lb), p[2]) < 0

\* day_scores[(*day - 1) as usize]: the slot exists for days 1..25 only
scores_out_of_bounds(lb) == \E s \in Range(lb) : s.day < 1 \/ s.day > DAYS

daily_scores_per_member(lb) ==
    LET standings == standings_per_challenge(lb)
        places == StarPlaces(lb)
        points == [p \in places |-> star_score(n_members(lb), p[2])]
    IN  [id \in DOMAIN solutions_per_member(lb) |->
            [day \in 1..DAYS |->
                SumFn(points, {p \in places :
                    p[1][1] = day /\ standings[p[1]][p[2] + 1] = id})]]

local_scores_per_member(lb) ==
    LET daily == daily_scores_per_member(lb)
    IN  [id \in DOMAIN daily |-> SumFn(daily[id], 1..DAYS)]

\* order: the iteration order of the scores map
standings_by_local_score(lb, order) ==
    LET scores == local_scores_per_member(lb)
        entries == [i \in 1..Len(order) |-> <<order[i].name, scores[order[i]]>>]
    IN  sorted_by_key(entries, [i \in 1..Len(entries) |-> <<0 - entries[i][2]>>])

(***************************************************************************)
(* standings_by_delta_for_day: filter_map over the members in map order,   *)
(* then a stable sort by delta.  The 0 | 1 arm drops the member, the 2 arm *)
(* orders the two records by timestamp, any other count is unreachable!(). *)
(***************************************************************************)
solutions_for_day(solutions, day) == SelectSeq(solutions, LAMBDA s : s.day = day)

delta_for_day_panics(lb, day) ==
    \E id \in DOMAIN solutions_per_member(lb) :
        Len(solutions_for_day(solutions_per_member(lb)[id], day)) > 2

member_delta_for_day(id, solutions, day) ==
    LET for_day == solutions_for_day(solutions, day)
    IN  IF Len(for_day) < 2 THEN None
        ELSE LET ordered_parts == sorted_by_key(for_day, [i \in 1..Len(for_day) |-> <<for_day[i].timestamp>>])
             IN  Some(<<id.name, ordered_parts[2].timestamp - ordered_parts[1].timestamp>>)

RECURSIVE filter_map(_)
filter_map(options) ==
    IF options = <<>> THEN <<>>
    ELSE Head(options) \o filter_map(Tail(options))

standings_by_delta_for_day(lb, day, order) ==
    LET groups == solutions_per_member(lb)
        deltas == filter_map([i \in 1..Len(order) |->
                      member_delta_for_day(order[i], groups[order[i]], day)])
    IN  sorted_by_key(deltas, [i \in 1..Len(deltas) |-> <<deltas[i][2]>>])

(***************************************************************************)
(* The state machine.  The leaderboards are filled, then one call is made  *)
(* and out holds what it returned: the functions are pure, so a behaviour  *)
(* observes each of them on the leaderboards it built.                     *)
(***************************************************************************)
NoCall == [op |-> "none", args |-> <<>>, panicked |-> FALSE, value |-> <<>>]

Returned(op, args, value) == [op |-> op, args |-> args, panicked |-> FALSE, value |-> value]

Panicked(op, args) == [op |-> op, args |-> args, panicked |-> TRUE, value |-> <<>>]

\* Leaderboard::new(), ScrapedLeaderboard::new()
Init ==
    /\ leaderboard = <<>>
    /\ current_leaderboard = <<>>
    /\ out = NoCall

\* Vec::push through DerefMut
Push(s) ==
    /\ out = NoCall
    /\ leaderboard' = Append(leaderboard, s)
    /\ UNCHANGED <<current_leaderboard, out>>

MembersIds ==
    /\ out = NoCall
    /\ \E order \in Orderings(DOMAIN solutions_per_member(leaderboard)) :
          out' = Returned("members_ids", <<>>, members_ids(leaderboard, order))
    /\ UNCHANGED <<leaderboard, current_leaderboard>>

StandingsByLocalScore ==
    /\ out = NoCall
    /\ IF scores_overflow(leaderboard) \/ scores_out_of_bounds(leaderboard)
       THEN out' = Panicked("standings_by_local_score", <<>>)
       ELSE \E order \in Orderings(DOMAIN solutions_per_member(leaderboard)) :
               out' = Returned("standings_by_local_score", <<>>,
                        [scores |-> local_scores_per_member(leaderboard),
                         standings |-> standings_by_local_score(leaderboard, order)])
    /\ UNCHANGED <<leaderboard, current_leaderboard>>

StandingsByDeltaForDay(day) ==
    /\ out = NoCall
    /\ IF delta_for_day_panics(leaderboard, day)
       THEN out' = Panicked("standings_by_delta_for_day", <<day>>)
       ELSE \E order \in Orderings(DOMAIN solutions_per_member(leaderboard)) :
               out' = Returned("standings_by_delta_for_day", <<day>>,
                        standings_by_delta_for_day(leaderboard, day, order))
    /\ UNCHANGED <<leaderboard, current_leaderboard>>

(***************************************************************************)
(* Ranking runs: leaderboards of a private board, where a member may       *)
(* appear under two names.                                                 *)
(***************************************************************************)
RankDays == {1, 2}

\* numeric id 1 under two names, and a name shared by two numeric ids
RankIdentifiers ==
    {Identifier(Names[1], 1, 0), Identifier(Names[2], 1, 0), Identifier(Names[2], 2, 0)}

RankSolutions ==
    {Solution(t, 2022, d, p, id, None) :
        t \in 1..2, d \in RankDays, p \in ProblemPart, id \in RankIdentifiers}

PushRanking == \E s \in RankSolutions : Len(leaderboard) < RankMaxLen /\ Push(s)

DeltaForDayRanking == \E day \in RankDays : StandingsByDeltaForDay(day)

NextRanking ==
    \/ PushRanking
    \/ MembersIds
    \/ StandingsByLocalScore
    \/ DeltaForDayRanking

SpecRanking == Init /\ [][NextRanking]_vars

(***************************************************************************)
(* ScrapedLeaderboard::statistics.                                         *)
(***************************************************************************)
\* crate::utils::challenge_release_time: the instant the puzzle of a day opens,
\* one day after the previous one (a day is one unit of time here)
challenge_release_time(year, day) == day - 1

\* DateTime::<Utc>::MIN_UTC: earlier than every timestamp
MIN_UTC == 0 - 1000

\* Duration is > (max second part - part.1): ... + Duration::seconds(1), 101
SENTINEL_RANK == 101

\* .filter(|e| e.year == year && e.day == day).into_group_map_by(|entry| entry.part)
data(lb, year, day) ==
    LET entries == SelectSeq(lb, LAMBDA e : e.year = year /\ e.day = day)
    IN  [part \in {e.part : e \in Range(entries)} |->
            SelectSeq(entries, LAMBDA e : e.part = part)]

sort_by_timestamp(entries) ==
    sorted_by_key(entries, [i \in 1..Len(entries) |-> <<entries[i].timestamp>>])

\* the fold over the whole leaderboard, for one part
max_time_for_part(lb, part) ==
    LET times == {e.timestamp : e \in {x \in Range(lb) : x.part = part}}
    IN  IF times = {} THEN MIN_UTC ELSE CHOOSE t \in times : \A u \in times : u <= t

\* .filter(|e| e.rank.is_some()).into_group_map_by(|e| e.id.numeric)
by_id(lb) ==
    LET ranked == SelectSeq(lb, LAMBDA e : e.rank # None)
    IN  [n \in {e.id.numeric : e \in Range(ranked)} |->
            SelectSeq(ranked, LAMBDA e : e.id.numeric = n)]

\* the match on entries.len(), arms 1 and 2
member_delta(entries, max_first, max_second) ==
    IF Len(entries) = 1
    THEN LET entry == entries[Len(entries)]
         IN  IF entry.part = "FIRST"
             THEN <<max_second - entry.timestamp + 1, SENTINEL_RANK>>
             ELSE <<entry.timestamp - max_first - 1, entry.rank[1]>>
    ELSE LET sorted == sort_by_timestamp(entries)
         IN  <<sorted[2].timestamp - sorted[1].timestamp, sorted[2].rank[1]>>

\* the filter with the sentinel let through (rank <= 101)
top_100_off_by_one(pair) == pair[2] <= 101

\* .filter(|(_duration, rank)| rank <= &100)
top_100(pair) == pair[2] <= 100

\* the map over by_id, the filter and sorted(): pairs ordered by (Duration, u8),
\* so the order in which the map is iterated does not show
sorted_deltas(lb) ==
    LET groups == by_id(lb)
        order == CHOOSE o \in Orderings(DOMAIN groups) : TRUE
        deltas == [i \in 1..Len(order) |->
                      member_delta(groups[order[i]], max_time_for_part(lb, "FIRST"),
                                   max_time_for_part(lb, "SECOND"))]
        kept == SelectSeq(deltas, top_100)
    IN  sorted_by_key(kept, kept)

\* Iterator::next, and what it leaves in the iterator
IterNext(iter) == IF iter = <<>> THEN None ELSE Some(Head(iter))

IterRest(iter) == IF iter = <<>> THEN <<>> ELSE Tail(iter)

offset(entry, start) == IF entry = None THEN None ELSE Some(entry[1].timestamp - start)

\* data.get(&part).unwrap() panics on a missing part; a group of more than two
\* ranked records reaches unreachable!()
statistics_panics(lb, year, day) ==
    \/ ProblemPart \ DOMAIN data(lb, year, day) # {}
    \/ \E n \in DOMAIN by_id(lb) : Len(by_id(lb)[n]) > 2

statistics(lb, year, day) ==
    IF statistics_panics(lb, year, day) THEN Panicked("statistics", <<year, day>>)
    ELSE LET part_1 == sort_by_timestamp(data(lb, year, day)["FIRST"])
             part_2 == sort_by_timestamp(data(lb, year, day)["SECOND"])
             start == challenge_release_time(year, day)
             deltas == sorted_deltas(lb)
         IN  Returned("statistics", <<year, day>>,
                [p1_time_fast |-> offset(IterNext(part_1), start),
                 p1_time_slow |-> offset(Last(IterRest(part_1)), start),
                 p2_time_fast |-> offset(IterNext(part_2), start),
                 p2_time_slow |-> offset(Last(IterRest(part_2)), start),
                 delta_fast |-> IterNext(deltas),
                 delta_slow |-> Last(IterRest(deltas))])

Statistics(year, day) ==
    /\ out = NoCall
    /\ out' = statistics(leaderboard, year, day)
    /\ UNCHANGED <<leaderboard, current_leaderboard>>

(***************************************************************************)
(* Statistics runs: scraped rows of the day asked for, with ranks on both  *)
(* sides of the top-100 filter and unranked rows, and rows of another day  *)
(* and of another year.                                                    *)
(***************************************************************************)
StatChallenges == {<<2022, 1>>, <<2022, 2>>, <<2021, 1>>}

StatRanks == {None, Some(100), Some(101)}

StatSolutions ==
    {Solution(t, 2022, 1, p, Identifier(Names[m], m, 0), r) :
        t \in 1..3, p \in ProblemPart, m \in 1..2, r \in StatRanks}
    \cup {Solution(3, c[1], c[2], p, Identifier(Names[m], m, 0), Some(1)) :
        c \in StatChallenges, p \in ProblemPart, m \in 1..2}

PushStatistics == \E s \in StatSolutions : Len(leaderboard) < StatMaxLen /\ Push(s)

PushStatisticsDays == \E s \in StatSolutions : Len(leaderboard) < StatDaysMaxLen /\ Push(s)

CallStatistics == \E c \in StatChallenges : Statistics(c[1], c[2])

NextStatistics == PushStatistics \/ CallStatistics

SpecStatistics == Init /\ [][NextStatistics]_vars

NextStatisticsDays == PushStatisticsDays \/ CallStatistics

SpecStatisticsDays == Init /\ [][NextStatisticsDays]_vars

(***************************************************************************)
(* Leaderboard::compute_diffs.                                             *)
(***************************************************************************)
\* the key with the whole Identifier (name included) in place of its numeric id
solution_key_whole_id(s) == <<s.id, s.day, s.part>>

\* (s.id.numeric, s.day, s.part)
solution_key(s) == <<s.id.numeric, s.day, s.part>>

\* current_leaderboard.iter().map(|s| (s.id.numeric, s.day, s.part))
current_solutions(current) == [i \in 1..Len(current) |-> solution_key(current[i])]

\* Itertools::contains
contains(iter, x) == \E i \in 1..Len(iter) : iter[i] = x

compute_diffs(lb, current) ==
    SelectSeq(lb, LAMBDA s : ~contains(current_solutions(current), solution_key(s)))

\* Vec::push on the leaderboard passed as current_leaderboard
PushCurrent(s) ==
    /\ out = NoCall
    /\ current_leaderboard' = Append(current_leaderboard, s)
    /\ UNCHANGED <<leaderboard, out>>

ComputeDiffs ==
    /\ out = NoCall
    /\ out' = Returned("compute_diffs", <<>>, compute_diffs(leaderboard, current_leaderboard))
    /\ UNCHANGED <<leaderboard, current_leaderboard>>

\* the caller diffs the two polls in both directions
ComputeDiffsBothWays ==
    /\ out = NoCall
    /\ out' = Returned("compute_diffs_both_ways", <<>>,
                [forward |-> compute_diffs(leaderboard, current_leaderboard),
                 backward |-> compute_diffs(current_leaderboard, leaderboard)])
    /\ UNCHANGED <<leaderboard, current_leaderboard>>

(***************************************************************************)
(* Diff runs: two polls of one board.  The keys differ pairwise in one of  *)
(* member, day and part; a key comes in two variants that differ in        *)
(* timestamp, year, name and rank.                                         *)
(***************************************************************************)
DiffKeys == {<<1, 1, "FIRST">>, <<2, 1, "FIRST">>, <<1, 2, "FIRST">>, <<1, 1, "SECOND">>}

DiffVariants == {<<1, 2022, Names[1], None>>, <<2, 2021, Names[2], Some(1)>>}

DiffSolutions ==
    {Solution(v[1], v[2], k[2], k[3], Identifier(v[3], k[1], 0), v[4]) :
        k \in DiffKeys, v \in DiffVariants}

PushDiff == \E s \in DiffSolutions : Len(leaderboard) < DiffMaxLen /\ Push(s)

PushCurrentDiff ==
    \E s \in DiffSolutions : Len(current_leaderboard) < DiffMaxLen /\ PushCurrent(s)

NextDiff == PushDiff \/ PushCurrentDiff \/ ComputeDiffs \/ ComputeDiffsBothWays

SpecDiff == Init /\ [][NextDiff]_vars

(***************************************************************************)
(* ScrapedLeaderboard::check_for_private_members.  leaderboard is the       *)
(* scraped (broad) board, current_leaderboard the one passed as            *)
(* private_leaderboard.  Every get_member_by_id call groups the private    *)
(* board into a fresh HashMap and takes the first key, in that map's       *)
(* iteration order, with the numeric id asked for.                         *)
(***************************************************************************)
\* longest broad and private leaderboards of the cross-reference runs
PrivateMaxLen == 2

\* order: the iteration order of solutions_per_member(lb)
get_member_by_id(lb, id, order) ==
    LET found == SelectSeq(order, LAMBDA m_id : m_id.numeric = id)
    IN  IF found = <<>> THEN None ELSE Some(Head(found))

\* the entries of the broad board that pass the filter
private_entries(lb, private) ==
    LET private_members_ids ==
            members_ids(private, CHOOSE o \in Orderings(DOMAIN solutions_per_member(private)) : TRUE)
    IN  SelectSeq(lb, LAMBDA entry : contains(private_members_ids, entry.id.numeric))

\* orders[i]: the iteration order met by the lookup for the i-th hero
check_for_private_members(lb, private, orders) ==
    LET entries == private_entries(lb, private)
    IN  [i \in 1..Len(entries) |->
            <<get_member_by_id(private, entries[i].id.numeric, orders[i])[1], entries[i].part>>]

CheckForPrivateMembers ==
    /\ out = NoCall
    /\ \E orders \in [1..Len(private_entries(leaderboard, current_leaderboard)) ->
                        Orderings(DOMAIN solutions_per_member(current_leaderboard))] :
          out' = Returned("check_for_private_members", <<>>,
                    check_for_private_members(leaderboard, current_leaderboard, orders))
    /\ UNCHANGED <<leaderboard, current_leaderboard>>

(***************************************************************************)
(* Cross-reference runs: a broad and a private board over the records of   *)
(* the diff runs, where a numeric id may carry either name.                *)
(***************************************************************************)
PushBroad == \E s \in DiffSolutions : Len(leaderboard) < PrivateMaxLen /\ Push(s)

PushPrivate ==
    \E s \in DiffSolutions : Len(current_leaderboard) < PrivateMaxLen /\ PushCurrent(s)

NextPrivate == PushBroad \/ PushPrivate \/ CheckForPrivateMembers

SpecPrivate == Init /\ [][NextPrivate]_vars

(***************************************************************************)
(* Leaderboard::standings_by_number_of_stars.                              *)
(***************************************************************************)
\* longest leaderboard of the star-count runs
StarsMaxLen == 4

\* the first earned star in place of the last
first_star(stars) == IterNext(sorted_unstable(stars))

\* stars.into_iter().sorted_unstable().last()
last_star(stars) == Last(sorted_unstable(stars))

\* (Reverse(x.1), x.2): Option<&Solution> compares by the derived order of Solution
stars_key(entry) == <<0 - entry[2]>> \o OptionKey(<<0>>) \o SolutionKey(entry[3][1])

\* order: the iteration order of the stars map
standings_by_number_of_stars(lb, order) ==
    LET stars == solutions_per_member(lb)
        entries == [i \in 1..Len(order) |->
                       <<order[i].name, Len(stars[order[i]]), last_star(stars[order[i]])>>]
        sorted == sorted_by_key(entries, [i \in 1..Len(entries) |-> stars_key(entries[i])])
    IN  [i \in 1..Len(sorted) |-> <<sorted[i][1], sorted[i][2]>>]

StandingsByNumberOfStars ==
    /\ out = NoCall
    /\ \E order \in Orderings(DOMAIN solutions_per_member(leaderboard)) :
          out' = Returned("standings_by_number_of_stars", <<>>,
                    standings_by_number_of_stars(leaderboard, order))
    /\ UNCHANGED <<leaderboard, current_leaderboard>>

(***************************************************************************)
(* Star-count runs: two members, the two parts of a day, three instants.   *)
(***************************************************************************)
StarSolutions ==
    {Solution(t, 2022, 1, p, Identifier(Names[m], m, 0), None) :
        t \in 1..3, p \in ProblemPart, m \in 1..2}

PushStars == \E s \in StarSolutions : Len(leaderboard) < StarsMaxLen /\ Push(s)

NextStars == PushStars \/ StandingsByNumberOfStars

SpecStars == Init /\ [][NextStars]_vars

(***************************************************************************)
(* Solution::from_html.  A string is the sequence of its characters; a     *)
(* node is a text node or an element with a name, a class and children;    *)
(* a row is its data-user-id attribute and its children.                   *)
(***************************************************************************)
Text(text) == [kind |-> "text", name |-> "", class |-> "", text |-> text, children |-> <<>>]

Element(name, class, children) ==
    [kind |-> "element", name |-> name, class |-> class, text |-> <<>>, children |-> children]

Digit == <<"0", "1", "2", "3", "4", "5", "6", "7", "8", "9">>

IsDigit(c) == \E d \in 1..10 : Digit[d] = c

DigitValue(c) == (CHOOSE d \in 1..10 : Digit[d] = c) - 1

RECURSIVE DecimalValue(_)
DecimalValue(chars) ==
    IF chars = <<>> THEN 0
    ELSE 10 * DecimalValue(SubSeq(chars, 1, Len(chars) - 1)) + DigitValue(chars[Len(chars)])

\* str::parse for an unsigned integer: an optional "+", then digits only
parse_unsigned(chars) ==
    LET digits == IF chars # <<>> /\ chars[1] = "+" THEN Tail(chars) ELSE chars
    IN  IF digits = <<>> \/ \E i \in 1..Len(digits) : ~IsDigit(digits[i])
        THEN None
        ELSE Some(DecimalValue(digits))

\* parse::<u64>(): the attributes considered are shorter than the width of u64
parse_u64(chars) == parse_unsigned(chars)

\* parse::<u8>()
parse_u8(chars) ==
    LET n == parse_unsigned(chars)
    IN  IF n # None /\ n[1] <= 255 THEN n ELSE None

\* format!("{}", n)
RECURSIVE format_number(_)
format_number(n) ==
    IF n < 10 THEN <<Digit[n + 1]>>
    ELSE format_number(n \div 10) \o <<Digit[(n % 10) + 1]>>

RECURSIVE trim(_)
trim(chars) ==
    IF chars = <<>> THEN <<>>
    ELSE IF chars[1] = " " THEN trim(Tail(chars))
    ELSE IF chars[Len(chars)] = " " THEN trim(SubSeq(chars, 1, Len(chars) - 1))
    ELSE chars

\* str::split: the pieces between the separators, empty pieces included
RECURSIVE split(_, _)
split(chars, sep) ==
    IF \A i \in 1..Len(chars) : chars[i] # sep THEN <<chars>>
    ELSE LET at == CHOOSE i \in 1..Len(chars) :
                       chars[i] = sep /\ \A j \in 1..(i - 1) : chars[j] # sep
         IN  <<SubSeq(chars, 1, at - 1)>> \o split(SubSeq(chars, at + 1, Len(chars)), sep)

starts_with(chars, c) == chars # <<>> /\ chars[1] = c

ends_with(chars, c) == chars # <<>> /\ chars[Len(chars)] = c

RECURSIVE Concat(_)
Concat(seqs) == IF seqs = <<>> THEN <<>> ELSE Head(seqs) \o Concat(Tail(seqs))

\* the descendants of a node in document order
RECURSIVE descendants(_)
descendants(node) ==
    Concat([i \in 1..Len(node.children) |->
               <<node.children[i]>> \o descendants(node.children[i])])

\* entry.select(&selector) for a class selector
select(entry, class) ==
    LET all == descendants(entry)
    IN  Concat([i \in 1..Len(all) |->
                   IF all[i].kind = "element" /\ all[i].class = class
                   THEN <<all[i]>> ELSE <<>>])

\* ElementRef::text(): the descendant text nodes in document order
text(element) ==
    LET all == descendants(element)
    IN  Concat([i \in 1..Len(all) |->
                   IF all[i].kind = "text" THEN <<all[i].text>> ELSE <<>>])

\* entry.value().attr("data-user-id") parsed
html_id(entry) == IF entry.attr = None THEN None ELSE parse_u64(entry.attr[1])

\* node.last_child().unwrap() and as_text().unwrap() on an <a> child
html_name_panics(entry) ==
    \E i \in 1..Len(entry.children) :
        LET node == entry.children[i]
        IN  /\ node.kind = "element"
            /\ node.name = "a"
            /\ \/ Last(node.children) = None
               \/ Last(node.children)[1].kind # "text"

html_name_candidate(node) ==
    IF node.kind = "text" THEN Some(trim(node.text))
    ELSE IF node.name = "a"
    THEN LET t == trim(Last(node.children)[1].text)
         IN  IF ~starts_with(t, "(") /\ ~ends_with(t, ")") THEN Some(t) ELSE None
    ELSE None

html_name(entry) ==
    LET candidates == filter_map([i \in 1..Len(entry.children) |->
                                     html_name_candidate(entry.children[i])])
        non_empty == Concat([i \in 1..Len(candidates) |->
                                IF candidates[i] # <<>> THEN <<candidates[i]>> ELSE <<>>])
    IN  Last(non_empty)

html_rank(entry) ==
    LET position == IterNext(select(entry, "leaderboard-position"))
    IN  IF position = None THEN None
        ELSE LET t == IterNext(text(position[1]))
             IN  IF t = None THEN None
                 ELSE parse_u8(trim(Head(split(t[1], ")"))))

MonthNames ==
    << <<"J","a","n">>, <<"F","e","b">>, <<"M","a","r">>, <<"A","p","r">>,
       <<"M","a","y">>, <<"J","u","n">>, <<"J","u","l">>, <<"A","u","g">>,
       <<"S","e","p">>, <<"O","c","t">>, <<"N","o","v">>, <<"D","e","c">> >>

IsLeapYear(year) == year % 4 = 0 /\ (year % 100 # 0 \/ year % 400 = 0)

DaysInMonth(year, month) ==
    IF month = 2 THEN (IF IsLeapYear(year) THEN 29 ELSE 28)
    ELSE IF month \in {4, 6, 9, 11} THEN 30 ELSE 31

RECURSIVE DaysBeforeMonth(_, _)
DaysBeforeMonth(year, month) ==
    IF month = 1 THEN 0
    ELSE DaysBeforeMonth(year, month - 1) + DaysInMonth(year, month - 1)

RECURSIVE DaysBeforeYear(_)
DaysBeforeYear(year) ==
    IF year <= 2000 THEN 0
    ELSE DaysBeforeYear(year - 1) + (IF IsLeapYear(year - 1) THEN 366 ELSE 365)

non_empty_pieces(pieces) ==
    Concat([i \in 1..Len(pieces) |-> IF pieces[i] # <<>> THEN <<pieces[i]>> ELSE <<>>])

\* NaiveDateTime::parse_from_str(with_year, "%Y %b %d  %H:%M:%S"): the fields
\* are separated by blanks and colons and each is range-checked; an instant is
\* counted in seconds from the start of the year 2000 (leap seconds are not
\* among the rows considered)
parse_from_str(with_year) ==
    LET fields == non_empty_pieces(split(with_year, " "))
        clock == IF Len(fields) = 4 THEN split(fields[4], ":") ELSE <<>>
    IN  IF Len(fields) # 4 \/ Len(clock) # 3 THEN None
        ELSE
        LET y == parse_unsigned(fields[1])
            months == {m \in 1..12 : MonthNames[m] = fields[2]}
            d == parse_unsigned(fields[3])
            h == parse_unsigned(clock[1])
            mi == parse_unsigned(clock[2])
            s == parse_unsigned(clock[3])
        IN  IF \/ y = None \/ months = {} \/ d = None \/ h = None \/ mi = None \/ s = None
               \/ Len(fields[3]) > 2 \/ Len(clock[1]) > 2 \/ Len(clock[2]) > 2 \/ Len(clock[3]) > 2
            THEN None
            ELSE
            LET month == CHOOSE m \in months : TRUE
            IN  IF \/ y[1] < 2000
                   \/ d[1] < 1 \/ d[1] > DaysInMonth(y[1], month)
                   \/ h[1] > 23 \/ mi[1] > 59 \/ s[1] > 59
                THEN None
                ELSE Some((DaysBeforeYear(y[1]) + DaysBeforeMonth(y[1], month) + (d[1] - 1)) * 86400
                          + h[1] * 3600 + mi[1] * 60 + s[1])

\* the last text of the time element that parses, six hours later
html_timestamp(entry, year) ==
    LET time == IterNext(select(entry, "leaderboard-time"))
    IN  IF time = None THEN None
        ELSE LET texts == text(time[1])
                 parsed == filter_map([i \in 1..Len(texts) |->
                              parse_from_str(format_number(year) \o <<" ">> \o texts[i])])
                 last == Last(parsed)
             IN  IF last = None THEN None ELSE Some(last[1] + 6 * 3600)

AnonymousUser == <<"a","n","o","n","y","m","o","u","s"," ","u","s","e","r"," ","#">>

from_html(entry, year, day, part) ==
    LET id == html_id(entry)
        name == html_name(entry)
        rank == html_rank(entry)
        timestamp == html_timestamp(entry, year)
    IN  IF id # None /\ rank # None /\ timestamp # None
        THEN Some(Solution(timestamp[1], year, day, part,
                           Identifier(IF name = None
                                      THEN AnonymousUser \o format_number(id[1])
                                      ELSE name[1],
                                      id[1], 0),
                           Some(rank[1])))
        ELSE None

FromHtml(entry, year, day, part) ==
    /\ out = NoCall
    /\ out' = IF html_name_panics(entry)
              THEN Panicked("from_html", <<entry, year, day, part>>)
              ELSE Returned("from_html", <<entry, year, day, part>>,
                            from_html(entry, year, day, part))
    /\ UNCHANGED <<leaderboard, current_leaderboard>>

(***************************************************************************)
(* Extractor runs: rows made of an id attribute, a rank marker, a time     *)
(* element and name nodes, each present or absent, well or ill formed.     *)
(***************************************************************************)
HtmlIds == {None, Some(<<"4", "2">>), Some(<<"0", "7">>), Some(<<"x">>), Some(<<>>)}

HtmlPositions ==
    {<<>>, <<Element("span", "leaderboard-position", <<>>)>>}
    \cup {<<Element("span", "leaderboard-position", <<Text(t)>>)>> :
            t \in {<<" ", " ", "1", ")">>, <<"1", "0", "0", ")">>, <<"0", ")">>,
                   <<"1", "0", "1", ")">>, <<"2", "5", "5", ")">>, <<"2", "5", "6", ")">>,
                   <<"x", ")">>, <<")">>, <<"7">>}}

HtmlTimeTexts ==
    [good |-> <<"D","e","c"," ","0","1"," "," ","0","0",":","0","0",":","1","0">>,
     late |-> <<"D","e","c"," ","0","1"," "," ","2","3",":","5","9",":","5","9">>,
     bad  |-> <<"D","e","c"," ","0","1"," "," ","2","4",":","0","0",":","0","0">>]

HtmlTimes ==
    {<<>>,
     <<Element("span", "leaderboard-time", <<>>)>>,
     <<Element("span", "leaderboard-time", <<Text(HtmlTimeTexts.good)>>)>>,
     <<Element("span", "leaderboard-time", <<Text(HtmlTimeTexts.bad)>>)>>,
     <<Element("span", "leaderboard-time",
               <<Text(HtmlTimeTexts.good), Text(HtmlTimeTexts.late), Text(HtmlTimeTexts.bad)>>)>>}

HtmlNames ==
    {<<>>,
     <<Text(<<" ">>)>>,
     <<Text(<<" ", "b", "o", "b", " ">>)>>,
     <<Element("a", "", <<Text(<<"e", "v", "e">>)>>)>>,
     <<Text(<<"b", "o", "b">>), Element("a", "", <<Text(<<"(", "A", "o", "C", "+", "+", ")">>)>>)>>,
     <<Element("a", "", <<Text(<<"(", "S", "p", "o", "n", "s", "o", "r", ")">>)>>)>>,
     <<Text(<<"b", "o", "b">>), Element("a", "", <<Element("img", "", <<>>), Text(<<"e", "v", "e">>)>>)>>,
     <<Element("a", "", <<>>)>>,
     <<Element("a", "", <<Element("img", "", <<>>)>>)>>}

HtmlEntries ==
    {[attr |-> id, children |-> position \o time \o name] :
        id \in HtmlIds, position \in HtmlPositions, time \in HtmlTimes, name \in HtmlNames}

NextExtractor ==
    \E entry \in HtmlEntries, part \in ProblemPart : FromHtml(entry, 2022, 1, part)

SpecExtractor == Init /\ [][NextExtractor]_vars

(***************************************************************************)
(* The whole engine.                                                       *)
(***************************************************************************)
Next == NextRanking \/ NextStatistics \/ NextStatisticsDays \/ NextDiff \/ NextPrivate
            \/ NextStars \/ NextExtractor

Spec == Init /\ [][Next]_vars

(***************************************************************************)
(* The claims.                                                             *)
(***************************************************************************)
\* the snapshot invariant: no two records share (member numeric id, day, part)
SnapshotInvariant(lb) ==
    \A i, j \in 1..Len(lb) :
        i # j => <<lb[i].id.numeric, lb[i].day, lb[i].part>>
                    # <<lb[j].id.numeric, lb[j].day, lb[j].part>>

Numerics(lb) == {s.id.numeric : s \in Range(lb)}

SameChallenge(a, b) == a.day = b.day /\ a.part = b.part

DistinctTimes(lb) ==
    \A i, j \in 1..Len(lb) :
        i # j /\ SameChallenge(lb[i], lb[j]) => lb[i].timestamp # lb[j].timestamp

\* zero-based position of record k among the solvers of its (day, part)
Position(lb, k) ==
    Cardinality({j \in 1..Len(lb) :
        SameChallenge(lb[j], lb[k]) /\ lb[j].timestamp < lb[k].timestamp})

ClaimedPoints(lb) == [k \in 1..Len(lb) |-> Cardinality(Numerics(lb)) - Position(lb, k)]

ClaimedTotal(lb, m) ==
    SumFn(ClaimedPoints(lb), {k \in 1..Len(lb) : lb[k].id.numeric = m})

\* C1: on a snapshot satisfying the invariant (and without timestamp ties inside
\* a (day, part)), the solver at position i of a (day, part) is awarded N - i
\* points, N the number of distinct numeric ids; a member's total is the sum of
\* the points of all their records, and all totals together are the sum of the
\* points of all records.
C1_ScoreStandings ==
    out.op = "standings_by_local_score" /\ SnapshotInvariant(leaderboard)
        /\ DistinctTimes(leaderboard) =>
    /\ ~out.panicked
    /\ \A id \in DOMAIN out.value.scores :
          out.value.scores[id] = ClaimedTotal(leaderboard, id.numeric)
    /\ SumFn(out.value.scores, DOMAIN out.value.scores)
          = SumFn(ClaimedPoints(leaderboard), 1..Len(leaderboard))

\* C2: grouping by member yields exactly one group per distinct numeric id, also
\* when records of one numeric id carry different names: members_ids lists
\* every numeric id once and the member count N is the number of numeric ids.
C2_MemberIdentity ==
    out.op = "members_ids" =>
    /\ Len(out.value) = Cardinality(Numerics(leaderboard))
    /\ \A i, j \in 1..Len(out.value) : out.value[i] = out.value[j] => i = j
    /\ n_members(leaderboard) = Cardinality(Numerics(leaderboard))

RecordsOfDay(lb, year, day) == SelectSeq(lb, LAMBDA e : e.year = year /\ e.day = day)

\* C3: statistics(year, day) is computed only from the records of that
\* (year, day): on a snapshot satisfying the invariant it completes exactly when
\* it completes on those records alone, and with the same delta_fast and
\* delta_slow.
C3_StatisticsOfTheDayOnly ==
    out.op = "statistics" /\ SnapshotInvariant(leaderboard) =>
    LET alone == statistics(RecordsOfDay(leaderboard, out.args[1], out.args[2]),
                            out.args[1], out.args[2])
    IN  /\ out.panicked = alone.panicked
        /\ ~out.panicked =>
              /\ out.value.delta_fast = alone.value.delta_fast
              /\ out.value.delta_slow = alone.value.delta_slow

PartTimes(lb, year, day, part) ==
    {e.timestamp : e \in {x \in Range(RecordsOfDay(lb, year, day)) : x.part = part}}

Fastest(value, part) ==
    IF part = "FIRST" THEN value.p1_time_fast ELSE value.p2_time_fast

Slowest(value, part) ==
    IF part = "FIRST" THEN value.p1_time_slow ELSE value.p2_time_slow

\* C4: when the snapshot holds no record of a part for the requested
\* (year, day), statistics returns, with None for the fastest and the slowest
\* offset of that part.
C4_MissingPartIsNone ==
    out.op = "statistics" =>
    \A part \in ProblemPart :
        PartTimes(leaderboard, out.args[1], out.args[2], part) = {} =>
            /\ ~out.panicked
            /\ Fastest(out.value, part) = None
            /\ Slowest(out.value, part) = None

MinOf(S) == CHOOSE x \in S : \A y \in S : x <= y

MaxOf(S) == CHOOSE x \in S : \A y \in S : y <= x

\* C5: when statistics returns, for each part with at least one record of the
\* requested (year, day), whatever their number, the fastest offset is the
\* earliest timestamp minus the release instant and the slowest offset the
\* latest timestamp minus the release instant, both present.
C5_FastestAndSlowestPresent ==
    out.op = "statistics" /\ ~out.panicked =>
    \A part \in ProblemPart :
        LET times == PartTimes(leaderboard, out.args[1], out.args[2], part)
            start == challenge_release_time(out.args[1], out.args[2])
        IN  times # {} =>
                /\ Fastest(out.value, part) = Some(MinOf(times) - start)
                /\ Slowest(out.value, part) = Some(MaxOf(times) - start)

\* the (delta, rank) pairs of the members, and those with rank <= 100
MemberPairs(lb) ==
    {member_delta(by_id(lb)[n], max_time_for_part(lb, "FIRST"),
                  max_time_for_part(lb, "SECOND")) : n \in DOMAIN by_id(lb)}

PassingPairs(lb) == {pair \in MemberPairs(lb) : pair[2] <= 100}

\* C6: when statistics returns, delta_fast is a pair of minimum delta and
\* delta_slow a pair of maximum delta among the pairs with rank <= 100, and each
\* is None if and only if no pair has rank <= 100.
C6_DeltaFastAndSlow ==
    out.op = "statistics" /\ ~out.panicked =>
    LET passing == PassingPairs(leaderboard)
    IN  /\ (out.value.delta_fast = None) <=> (passing = {})
        /\ (out.value.delta_slow = None) <=> (passing = {})
        /\ passing # {} /\ out.value.delta_fast # None =>
              /\ out.value.delta_fast[1] \in passing
              /\ \A q \in passing : out.value.delta_fast[1][1] <= q[1]
        /\ passing # {} /\ out.value.delta_slow # None =>
              /\ out.value.delta_slow[1] \in passing
              /\ \A q \in passing : q[1] <= out.value.delta_slow[1][1]

\* the members whose only ranked record is a part-1 record
PartOneOnly(lb) ==
    {n \in DOMAIN by_id(lb) : Len(by_id(lb)[n]) = 1 /\ by_id(lb)[n][1].part = "FIRST"}

ExtrapolatedPair(lb, n) ==
    member_delta(by_id(lb)[n], max_time_for_part(lb, "FIRST"),
                 max_time_for_part(lb, "SECOND"))

\* C7: when statistics returns, every pair reported as delta_fast or delta_slow
\* has rank <= 100; the pair of a member with only a part-1 record has rank 101
\* and a delta strictly greater than the latest part-2 timestamp minus the
\* record's timestamp, and is not reported.
C7_OnlyTop100Reported ==
    out.op = "statistics" /\ ~out.panicked =>
    /\ \A reported \in {out.value.delta_fast, out.value.delta_slow} :
          reported # None => reported[1][2] <= 100
    /\ \A n \in PartOneOnly(leaderboard) :
          LET pair == ExtrapolatedPair(leaderboard, n)
          IN  /\ pair[2] = 101
              /\ pair[1] > max_time_for_part(leaderboard, "SECOND")
                              - by_id(leaderboard)[n][1].timestamp
              /\ Some(pair) \notin {out.value.delta_fast, out.value.delta_slow}

\* C7 witness: statistics returned a delta_fast while a member with only a
\* part-1 record was extrapolated
C7_Witness ==
    /\ out.op = "statistics" /\ ~out.panicked
    /\ out.value.delta_fast # None
    /\ PartOneOnly(leaderboard) # {}

RecordsOnDay(lb, m, day) == SelectSeq(lb, LAMBDA s : s.id.numeric = m /\ s.day = day)

TwoRecordMembers(lb, day) == {m \in Numerics(lb) : Len(RecordsOnDay(lb, m, day)) = 2}

ClaimedDelta(lb, m, day) ==
    LET r == RecordsOnDay(lb, m, day)
    IN  IF r[1].timestamp <= r[2].timestamp THEN r[2].timestamp - r[1].timestamp
        ELSE r[1].timestamp - r[2].timestamp

\* C8: when the per-day delta standings return, their entries are exactly the
\* members (numeric ids) with exactly two records on that day, each with the
\* later minus the earlier timestamp of the two, in ascending order of delta.
C8_DeltaStandings ==
    out.op = "standings_by_delta_for_day" /\ ~out.panicked =>
    LET day == out.args[1]
        members == TwoRecordMembers(leaderboard, day)
    IN  /\ Len(out.value) = Cardinality(members)
        /\ \E o \in Orderings(members) :
              \A i \in 1..Len(out.value) :
                  /\ out.value[i][2] = ClaimedDelta(leaderboard, o[i], day)
                  /\ \E s \in Range(RecordsOnDay(leaderboard, o[i], day)) :
                        s.id.name = out.value[i][1]
        /\ \A i \in 1..(Len(out.value) - 1) : out.value[i][2] <= out.value[i + 1][2]

RankedRecords(lb, m) == SelectSeq(lb, LAMBDA e : e.rank # None /\ e.id.numeric = m)

\* C9: the per-day delta standings abort whenever a member (numeric id) has
\* more than two records on that day, and statistics aborts whenever a member
\* has more than two ranked records.
C9_TooManyRecordsAbort ==
    /\ out.op = "standings_by_delta_for_day"
          /\ (\E m \in Numerics(leaderboard) :
                 Len(RecordsOnDay(leaderboard, m, out.args[1])) > 2)
          => out.panicked
    /\ out.op = "statistics"
          /\ (\E m \in Numerics(leaderboard) : Len(RankedRecords(leaderboard, m)) > 2)
          => out.panicked

SameKey(a, b) == a.id.numeric = b.id.numeric /\ a.day = b.day /\ a.part = b.part

\* the places of the reference whose key appears in no record of the comparison
AbsentPlaces(lb, current) ==
    {i \in 1..Len(lb) : \A j \in 1..Len(current) : ~SameKey(lb[i], current[j])}

\* C10: compute_diffs returns exactly the records of the reference whose key
\* (member numeric id, day, part) appears in no record of the comparison, in the
\* reference's order; the diff of a snapshot with itself is empty.
C10_ComputeDiffs ==
    out.op = "compute_diffs" =>
    LET places == AbsentPlaces(leaderboard, current_leaderboard)
    IN  /\ Len(out.value) = Cardinality(places)
        /\ \A i \in places :
              out.value[Cardinality({j \in places : j <= i})] = leaderboard[i]
        /\ leaderboard = current_leaderboard => out.value = <<>>

\* C10 witness: a diff that keeps one record and drops another whose key is in
\* the comparison under another name, timestamp, year and rank
C10_Witness ==
    /\ out.op = "compute_diffs"
    /\ out.value # <<>>
    /\ \E i \in 1..Len(leaderboard), j \in 1..Len(current_leaderboard) :
          /\ SameKey(leaderboard[i], current_leaderboard[j])
          /\ leaderboard[i].id.name # current_leaderboard[j].id.name
          /\ leaderboard[i].timestamp # current_leaderboard[j].timestamp
          /\ leaderboard[i].year # current_leaderboard[j].year
          /\ leaderboard[i].rank # current_leaderboard[j].rank

KeysOf(lb) == {<<s.id.numeric, s.day, s.part>> : s \in Range(lb)}

\* C11: the keys of diff(A, B) and the keys of diff(B, A) are disjoint, and
\* their union is the set of keys (member numeric id, day, part) present in
\* exactly one of A and B.
C11_DiffAntisymmetry ==
    out.op = "compute_diffs_both_ways" =>
    LET a == KeysOf(leaderboard)
        b == KeysOf(current_leaderboard)
    IN  /\ KeysOf(out.value.forward) \cap KeysOf(out.value.backward) = {}
        /\ KeysOf(out.value.forward) \cup KeysOf(out.value.backward)
              = (a \ b) \cup (b \ a)

\* C11 witness: both diffs are non-empty while a key held by both snapshots,
\* under different names, is in neither
C11_Witness ==
    /\ out.op = "compute_diffs_both_ways"
    /\ out.value.forward # <<>>
    /\ out.value.backward # <<>>
    /\ \E i \in 1..Len(leaderboard), j \in 1..Len(current_leaderboard) :
          /\ SameKey(leaderboard[i], current_leaderboard[j])
          /\ leaderboard[i].id.name # current_leaderboard[j].id.name

\* the places of the broad board whose member numeric id occurs in the narrow one
HeroPlaces(lb, private) == {i \in 1..Len(lb) : lb[i].id.numeric \in Numerics(private)}

\* C12: check_for_private_members returns one (identifier, part) pair for each
\* broad-scope record whose member numeric id occurs in the narrow scope, in
\* order, and none for the others; the identifier of a pair is the identifier
\* the narrow scope holds for that numeric id, the only one it holds.
C12_PrivateMembers ==
    out.op = "check_for_private_members" =>
    LET places == HeroPlaces(leaderboard, current_leaderboard)
    IN  /\ Len(out.value) = Cardinality(places)
        /\ \A i \in places :
              LET pair == out.value[Cardinality({j \in places : j <= i})]
              IN  /\ pair[2] = leaderboard[i].part
                  /\ pair[1].numeric = leaderboard[i].id.numeric
                  /\ \A s \in Range(current_leaderboard) :
                        s.id.numeric = pair[1].numeric => s.id = pair[1]

Members(lb) == {s.id : s \in Range(lb)}

StarCount(lb, id) == Cardinality({i \in 1..Len(lb) : lb[i].id = id})

LastStarTime(lb, id) == MaxOf({s.timestamp : s \in {x \in Range(lb) : x.id = id}})

ClaimedRank(entry) ==
    LET markers == select(entry, "leaderboard-position")
    IN  IF markers = <<>> \/ text(markers[1]) = <<>> THEN None
        ELSE parse_unsigned(trim(Head(split(text(markers[1])[1], ")"))))

\* C14: the extractor produces a record if and only if the member id parses
\* as an unsigned integer, the rank parses as an integer in 1..100 and the
\* timestamp parses; the record's name is never missing, and is
\* "anonymous user #<id>" when the row resolves no name.
C14_Extractor ==
    out.op = "from_html" =>
    LET entry == out.args[1]
        id == html_id(entry)
        rank == ClaimedRank(entry)
    IN  /\ ~out.panicked
        /\ out.value # None <=>
              /\ id # None
              /\ rank # None /\ rank[1] \in 1..100
              /\ html_timestamp(entry, out.args[2]) # None
        /\ out.value # None =>
              /\ out.value[1].id.name # <<>>
              /\ html_name(entry) = None =>
                    out.value[1].id.name = AnonymousUser \o format_number(id[1])

====
